---- MODULE Spec2Model ----
(***************************************************************************)
(* The navipod RDF example scripts: rdf_nt_query.py, rdf_ttl_query.py and  *)
(* rdf_ttl_query_scr.py.  Each script creates an empty graph, parses one   *)
(* hardcoded file into it, evaluates one static SPARQL SELECT query and    *)
(* prints the first bound variable of every result row.                    *)
(*                                                                         *)
(* The graph library is modelled by what its documented operations do:     *)
(* parse fills the graph with the triples of a well-formed file or raises, *)
(* query evaluates the SPARQL algebra of the query (basic graph pattern,   *)
(* join, filter, projection, DISTINCT) and hands the rows back in an order *)
(* the query does not fix (no ORDER BY), print writes str() of a term.     *)
(***************************************************************************)
EXTENDS Naturals, Sequences, FiniteSets

VARIABLES
    script,     \* which of the three scripts this process runs
    fileState,  \* the file at the script's hardcoded path: valid, malformed or missing
    file,       \* the triples serialized in that file
    g,          \* the triples of the in-memory graph g
    results,    \* the rows of `results` not yet consumed by the for loop
    out,        \* the lines written to standard output so far
    pc          \* the position of the script in its statement sequence

vars == <<script, fileState, file, g, results, out, pc>>

(***************************************************************************)
(* Bounds of the model.                                                    *)
(***************************************************************************)
\* The largest number of triples in a well-formed input file.
MaxTriples == 4
\* The largest number of well-formed triples in a malformed input file.
MaxBadTriples == 1
\* The largest number of triples in a well-formed input file of the runs
\* checked for termination.
MaxLiveTriples == 3

(***************************************************************************)
(* RDF terms of the input files.                                           *)
(***************************************************************************)
K8pAppname == "http://k8p.navicore.tech/property/k8p_appname"
K8pMetricName == "http://k8p.navicore.tech/property/k8p_metric_name"
NavipodAppname == "http://navipod.navicore.tech/property/navipod_appname"
NavipodMetricName == "http://navipod.navicore.tech/property/navipod_metric_name"

Subjects == {"s1", "s2"}

\* A literal is its lexical form and its language tag ("" for a plain literal).
Lit(lex, lang) == [lex |-> lex, lang |-> lang]

AppTerms == {Lit("billing", ""), Lit("auth", ""), Lit("billing", "en")}

MetricTerms ==
    {Lit("jvm.heap.used", ""), Lit("cpu.load", ""), Lit("JVM.heap", ""), Lit("app.Jvm.gc", "")}

\* Every triple an input file of the model may hold.
Universe ==
    (Subjects \X {K8pAppname, NavipodAppname} \X AppTerms)
    \cup (Subjects \X {K8pMetricName, NavipodMetricName} \X MetricTerms)

\* The elements of S listed in some fixed order.
RECURSIVE Listing(_)
Listing(S) ==
    IF S = {} THEN <<>>
    ELSE LET x == CHOOSE y \in S : TRUE IN <<x>> \o Listing(S \ {x})

\* The increasing sequences of at most k indices drawn from lo..hi.
RECURSIVE Increasing(_, _, _)
Increasing(lo, hi, k) ==
    IF k = 0 THEN {<<>>}
    ELSE {<<>>} \cup UNION {{<<i>> \o t : t \in Increasing(i + 1, hi, k - 1)} : i \in lo..hi}

\* The triples of the universe in a fixed order, and the file holding the
\* triples at the indices t.
UniverseList == Listing(Universe)

FileOf(t) == {UniverseList[t[j]] : j \in DOMAIN t}

(***************************************************************************)
(* Strings as character sequences, for the regular expression.             *)
(***************************************************************************)
Chars(str) ==
    CASE str = "jvm" -> <<"j", "v", "m">>
      [] str = "jvm.heap.used" ->
            <<"j", "v", "m", ".", "h", "e", "a", "p", ".", "u", "s", "e", "d">>
      [] str = "JVM.heap" -> <<"J", "V", "M", ".", "h", "e", "a", "p">>
      [] str = "app.Jvm.gc" -> <<"a", "p", "p", ".", "J", "v", "m", ".", "g", "c">>
      [] str = "cpu.load" -> <<"c", "p", "u", ".", "l", "o", "a", "d">>
      [] str = "vmj.pool" -> <<"v", "m", "j", ".", "p", "o", "o", "l">>
      [] str = "jv" -> <<"j", "v">>
      [] str = "" -> <<>>

\* Case folding of one character, as the "i" flag compares characters: the
\* letters of the pattern "jvm" are the ones whose case can decide a match.
Fold(c) ==
    CASE c = "J" -> "j"
      [] c = "V" -> "v"
      [] c = "M" -> "m"
      [] OTHER -> c

\* Regex with the pattern looked for at the start of the text only (a match
\* where a search is meant).
RegexAtStart(text, pattern, flags) ==
    LET t == Chars(text)
        p == Chars(pattern)
        same(a, b) == IF flags = "i" THEN Fold(a) = Fold(b) ELSE a = b
    IN /\ Len(p) <= Len(t)
       /\ \A k \in 1..Len(p) : same(t[k], p[k])

\* regex(text, pattern, flags) for a pattern of literal characters: the pattern
\* occurs in the text at some position; with flag "i" letter case is ignored.
Regex(text, pattern, flags) ==
    LET t == Chars(text)
        p == Chars(pattern)
        same(a, b) == IF flags = "i" THEN Fold(a) = Fold(b) ELSE a = b
    IN \E i \in 0..Len(t) :
          /\ i + Len(p) <= Len(t)
          /\ \A k \in 1..Len(p) : same(t[i + k], p[k])

\* str(term): the lexical form of a literal, without its language tag.
Str(term) == term.lex

(***************************************************************************)
(* The three scripts: the path and format given to g.parse, and the static *)
(* query in its parsed form (SELECT [DISTINCT] ?select WHERE { patterns    *)
(* FILTER regex(str(?var), pattern, flags) }).                             *)
(***************************************************************************)
TP(s, p, o) == [s |-> s, p |-> p, o |-> o]

RegexFilter(var, pattern, flags) == [var |-> var, pattern |-> pattern, flags |-> flags]

RdfNtQuery ==
    [path |-> "k8p.nt", format |-> "nt",
     query |-> [distinct |-> TRUE, select |-> <<"appname">>,
                patterns |-> <<TP("s", K8pAppname, "appname"),
                               TP("s", K8pMetricName, "metric")>>,
                filters |-> <<RegexFilter("metric", "jvm", "i")>>]]

\* RdfTtlQuery with DISTINCT added.
RdfTtlQueryDistinct ==
    [path |-> "navipod.ttl", format |-> "ttl",
     query |-> [distinct |-> TRUE, select |-> <<"appname">>,
                patterns |-> <<TP("s", NavipodAppname, "appname"),
                               TP("s", NavipodMetricName, "metric")>>,
                filters |-> <<RegexFilter("metric", "jvm", "i")>>]]

RdfTtlQuery ==
    [path |-> "navipod.ttl", format |-> "ttl",
     query |-> [distinct |-> FALSE, select |-> <<"appname">>,
                patterns |-> <<TP("s", NavipodAppname, "appname"),
                               TP("s", NavipodMetricName, "metric")>>,
                filters |-> <<RegexFilter("metric", "jvm", "i")>>]]

\* RdfTtlQueryScr with the metric-name pattern of the other queries kept.
RdfTtlQueryScrWithMetric ==
    [path |-> "navipod.ttl", format |-> "ttl",
     query |-> [distinct |-> TRUE, select |-> <<"appname">>,
                patterns |-> <<TP("s", NavipodAppname, "appname"),
                               TP("s", NavipodMetricName, "metric")>>,
                filters |-> <<>>]]

RdfTtlQueryScr ==
    [path |-> "navipod.ttl", format |-> "ttl",
     query |-> [distinct |-> TRUE, select |-> <<"appname">>,
                patterns |-> <<TP("s", NavipodAppname, "appname")>>,
                filters |-> <<>>]]

Scripts == {"rdf_nt_query", "rdf_ttl_query", "rdf_ttl_query_scr"}

Script(name) ==
    CASE name = "rdf_nt_query" -> RdfNtQuery
      [] name = "rdf_ttl_query" -> RdfTtlQuery
      [] name = "rdf_ttl_query_scr" -> RdfTtlQueryScr

(***************************************************************************)
(* SPARQL evaluation: solution mappings are functions from variable names  *)
(* to terms.                                                               *)
(***************************************************************************)
\* The solutions of one triple pattern ?s <p> ?o over graph G.
MatchPattern(tp, G) ==
    {[v \in {tp.s, tp.o} |-> IF v = tp.s THEN t[1] ELSE t[3]] :
        t \in {u \in G : u[2] = tp.p}}

Compatible(a, b) == \A v \in DOMAIN a \cap DOMAIN b : a[v] = b[v]

Merge(a, b) == [v \in DOMAIN a \cup DOMAIN b |-> IF v \in DOMAIN a THEN a[v] ELSE b[v]]

\* Join without the compatibility test: the shared variable ?s is not joined on.
JoinCross(A, B) == {Merge(x[1], x[2]) : x \in A \X B}

Join(A, B) == {Merge(x[1], x[2]) : x \in {y \in A \X B : Compatible(y[1], y[2])}}

\* The solutions of a basic graph pattern: the join of its triple patterns.
RECURSIVE EvalBGP(_, _)
EvalBGP(patterns, G) ==
    IF Len(patterns) = 1 THEN MatchPattern(patterns[1], G)
    ELSE Join(EvalBGP(SubSeq(patterns, 1, Len(patterns) - 1), G),
              MatchPattern(patterns[Len(patterns)], G))

\* FILTER regex(str(?var), pattern, flags)
FilterHolds(f, mu) == Regex(Str(mu[f.var]), f.pattern, f.flags)

EvalFilter(filters, Omega) ==
    {mu \in Omega : \A i \in 1..Len(filters) : FilterHolds(filters[i], mu)}

\* The solutions of the WHERE clause.
Solutions(q, G) == EvalFilter(q.filters, EvalBGP(q.patterns, G))

\* The row of a solution: its values for the selected variables.
Row(q, mu) == [i \in 1..Len(q.select) |-> mu[q.select[i]]]

\* Every order in which the elements of S can be listed.
RECURSIVE Orderings(_)
Orderings(S) ==
    IF S = {} THEN {<<>>}
    ELSE UNION {{<<x>> \o o : o \in Orderings(S \ {x})} : x \in S}

\* QueryResults cut to the first row of whatever order the library chose.
QueryResultsFirstRow(q, G) ==
    LET all == IF q.distinct
               THEN Orderings({Row(q, mu) : mu \in Solutions(q, G)})
               ELSE {[i \in 1..Len(o) |-> Row(q, o[i])] : o \in Orderings(Solutions(q, G))}
    IN {SubSeq(rows, 1, IF Len(rows) = 0 THEN 0 ELSE 1) : rows \in all}

\* The row sequences g.query(q) can return: one row per solution, or with
\* DISTINCT one row per distinct projected solution, in any order.
QueryResults(q, G) ==
    IF q.distinct
    THEN Orderings({Row(q, mu) : mu \in Solutions(q, G)})
    ELSE {[i \in 1..Len(o) |-> Row(q, o[i])] : o \in Orderings(Solutions(q, G))}

(***************************************************************************)
(* The script, statement by statement.                                     *)
(***************************************************************************)
\* The input files of the model, by state of the file, each as the indices of
\* its triples: a well-formed file of at most k triples, a malformed file with
\* the well-formed statements it holds, and a missing file.
Files(state, k) ==
    CASE state = "valid" -> Increasing(1, Len(UniverseList), k)
      [] state = "malformed" -> Increasing(1, Len(UniverseList), MaxBadTriples)
      [] state = "missing" -> {<<>>}

\* The process before its first statement, with the file it will find.
Start(k) ==
    /\ fileState \in {"valid", "malformed", "missing"}
    /\ \E t \in Files(fileState, k) : file = FileOf(t)
    /\ script \in Scripts
    /\ g = {}
    /\ results = <<>>
    /\ out = <<>>
    /\ pc = "start"

Init == Start(MaxTriples)

\* g = Graph()
NewGraph ==
    /\ pc = "start"
    /\ g' = {}
    /\ pc' = "created"
    /\ UNCHANGED <<script, fileState, file, results, out>>

\* Parse with the error swallowed: the script goes on with what was loaded.
ParseIgnoringErrors ==
    /\ pc = "created"
    /\ g' \in IF fileState = "valid" THEN {g \cup file} ELSE {g \cup T : T \in SUBSET file}
    /\ pc' = "parsed"
    /\ UNCHANGED <<script, fileState, file, results, out>>

\* Parse retried for as long as it fails.
ParseRetrying ==
    /\ pc = "created"
    /\ IF fileState = "valid"
       THEN /\ g' = g \cup file
            /\ pc' = "parsed"
       ELSE /\ g' = g
            /\ pc' = "created"
    /\ UNCHANGED <<script, fileState, file, results, out>>

\* g.parse(path, format=...): the triples of a well-formed file are added to
\* the graph; a missing or malformed file raises, which nothing catches, after
\* the parser added some of the statements it had read.
Parse ==
    /\ pc = "created"
    /\ IF fileState = "valid"
       THEN /\ g' = g \cup file
            /\ pc' = "parsed"
       ELSE /\ g' \in {g \cup T : T \in SUBSET file}
            /\ pc' = "failed"
    /\ UNCHANGED <<script, fileState, file, results, out>>

\* Query placed before the parse as well: it runs on the graph as it is.
QueryWithoutParse ==
    /\ pc \in {"created", "parsed"}
    /\ results' \in QueryResults(Script(script).query, g)
    /\ pc' = "queried"
    /\ UNCHANGED <<script, fileState, file, g, out>>

\* results = g.query(query)
Query ==
    /\ pc = "parsed"
    /\ results' \in QueryResults(Script(script).query, g)
    /\ pc' = "queried"
    /\ UNCHANGED <<script, fileState, file, g, out>>

\* PrintRow stepping over the row that follows the printed one.
PrintRowSkipping ==
    /\ pc = "queried"
    /\ results /= <<>>
    /\ out' = Append(out, Str(Head(results)[1]))
    /\ results' = IF Len(results) >= 2 THEN Tail(Tail(results)) ELSE Tail(results)
    /\ UNCHANGED <<script, fileState, file, g, pc>>

\* PrintRow removing from the graph the triples whose object it printed.
PrintRowRemoving ==
    /\ pc = "queried"
    /\ results /= <<>>
    /\ out' = Append(out, Str(Head(results)[1]))
    /\ results' = Tail(results)
    /\ g' = {t \in g : t[3] /= Head(results)[1]}
    /\ UNCHANGED <<script, fileState, file, pc>>

\* for result in results: print(result[0])     (one iteration)
PrintRow ==
    /\ pc = "queried"
    /\ results /= <<>>
    /\ out' = Append(out, Str(Head(results)[1]))
    /\ results' = Tail(results)
    /\ UNCHANGED <<script, fileState, file, g, pc>>

\* The for loop ends when the rows are exhausted, and the script with it.
Finish ==
    /\ pc = "queried"
    /\ results = <<>>
    /\ pc' = "done"
    /\ UNCHANGED <<script, fileState, file, g, results, out>>

Next == NewGraph \/ Parse \/ Query \/ PrintRow \/ Finish

Spec == Init /\ [][Next]_vars

\* The interpreter always executes the next statement of a running script.
LiveInit == Start(MaxLiveTriples)

LiveSpec == LiveInit /\ [][Next]_vars /\ WF_vars(Next)

(***************************************************************************)
(* Vocabulary of the claims.                                               *)
(***************************************************************************)
\* How many times line x was written.
Count(seq, x) == Cardinality({i \in DOMAIN seq : seq[i] = x})

\* The set of lines written.
Lines == {out[i] : i \in DOMAIN out}

\* The lines a row sequence prints.
LinesOf(rows) == {Str(rows[i][1]) : i \in DOMAIN rows}

\* The lexical forms an appname can have.
AppNames == {Str(a) : a \in AppTerms}

\* The metric names that contain "jvm" in some letter case, listed by hand.
JvmNames == {"jvm.heap.used", "JVM.heap", "app.Jvm.gc"}

\* The (subject, appname, metric) combinations of G under predicates pa and pm
\* whose metric name contains "jvm".
JvmCombos(G, pa, pm) ==
    {c \in Subjects \X AppTerms \X MetricTerms :
        /\ <<c[1], pa, c[2]>> \in G
        /\ <<c[1], pm, c[3]>> \in G
        /\ Str(c[3]) \in JvmNames}

\* The input of the first example: subject 1 is billing with jvm.heap.used,
\* subject 2 is auth with cpu.load.
NtExampleFile ==
    {<<"s1", K8pAppname, Lit("billing", "")>>,
     <<"s1", K8pMetricName, Lit("jvm.heap.used", "")>>,
     <<"s2", K8pAppname, Lit("auth", "")>>,
     <<"s2", K8pMetricName, Lit("cpu.load", "")>>}

\* The input of the second example: two subjects with an appname each.
ScrExampleFile ==
    {<<"s1", NavipodAppname, Lit("billing", "")>>,
     <<"s2", NavipodAppname, Lit("auth", "")>>}

(***************************************************************************)
(* C1: when rdf_nt_query.py has completed, an appname A is among the       *)
(* printed lines if and only if some subject has a k8p_appname triple with *)
(* object A and a k8p_metric_name triple whose object contains "jvm"; on   *)
(* the example input the output is exactly the one line billing.           *)
(***************************************************************************)
C1_NtPrintsJvmApps ==
    (script = "rdf_nt_query" /\ pc = "done") =>
        /\ \A A \in AppNames :
              A \in Lines <=>
                 \E c \in JvmCombos(file, K8pAppname, K8pMetricName) : Str(c[2]) = A
        /\ Lines \subseteq AppNames
        /\ file = NtExampleFile => out = <<"billing">>

C1_Witness ==
    /\ script = "rdf_nt_query"
    /\ pc = "done"
    /\ file = NtExampleFile
    /\ out = <<"billing">>

(***************************************************************************)
(* C2: when rdf_ttl_query_scr.py has completed, every term that is the     *)
(* object of a navipod_appname triple has been printed exactly once (a     *)
(* line appears once for each distinct term it is the string of), with or  *)
(* without a navipod_metric_name triple on the subject; nothing else is    *)
(* printed.                                                                *)
(***************************************************************************)
C2_ScrPrintsEveryAppnameOnce ==
    (script = "rdf_ttl_query_scr" /\ pc = "done") =>
        \A A \in AppNames \cup Lines :
            Count(out, A) =
                Cardinality({a \in AppTerms :
                    /\ Str(a) = A
                    /\ \E s \in Subjects : <<s, NavipodAppname, a>> \in file})

C2_Witness ==
    /\ script = "rdf_ttl_query_scr"
    /\ pc = "done"
    /\ file = ScrExampleFile
    /\ Count(out, "billing") = 1
    /\ Count(out, "auth") = 1
    /\ Len(out) = 2

(***************************************************************************)
(* C3: the set of lines a completed run has printed is the set any other   *)
(* run of the same script on the same input prints, whatever order the     *)
(* library returns the rows in.                                            *)
(***************************************************************************)
C3_PrintedSetIndependentOfOrder ==
    pc = "done" =>
        \A rows \in QueryResults(Script(script).query, file) : Lines = LinesOf(rows)

\* A completed run that printed two different lines, which another order of
\* the rows prints the other way round.
C3_Witness ==
    /\ pc = "done"
    /\ out = <<"billing", "auth">>
    /\ \E rows \in QueryResults(Script(script).query, file) :
          /\ Len(rows) = 2
          /\ Str(rows[1][1]) = "auth"

(***************************************************************************)
(* C4: the filter of the two filtering scripts accepts a metric name       *)
(* exactly when it contains "jvm" at some position in some letter case,    *)
(* and every line a filtering script prints is the appname of a subject    *)
(* with such a metric name.                                                *)
(***************************************************************************)
C4_FilterIsCaseInsensitiveContains ==
    /\ \A sc \in {"rdf_nt_query", "rdf_ttl_query"} :
          \A name \in {"jvm.heap.used", "JVM.heap", "app.Jvm.gc", "cpu.load",
                       "vmj.pool", "jv", ""} :
              FilterHolds(Script(sc).query.filters[1], [metric |-> Lit(name, "")])
                 <=> name \in JvmNames
    /\ (script = "rdf_nt_query" /\ pc \in {"queried", "done"}) =>
          \A A \in Lines \cup LinesOf(results) :
              \E c \in JvmCombos(file, K8pAppname, K8pMetricName) : Str(c[2]) = A
    /\ (script = "rdf_ttl_query" /\ pc \in {"queried", "done"}) =>
          \A A \in Lines \cup LinesOf(results) :
              \E c \in JvmCombos(file, NavipodAppname, NavipodMetricName) : Str(c[2]) = A

\* A completed filtering run in which one subject matched through an
\* upper-case occurrence inside the name and another subject did not match.
C4_Witness ==
    /\ script = "rdf_ttl_query"
    /\ pc = "done"
    /\ <<"s1", NavipodMetricName, Lit("app.Jvm.gc", "")>> \in file
    /\ <<"s1", NavipodAppname, Lit("billing", "")>> \in file
    /\ <<"s2", NavipodMetricName, Lit("cpu.load", "")>> \in file
    /\ <<"s2", NavipodAppname, Lit("auth", "")>> \in file
    /\ out = <<"billing">>

(***************************************************************************)
(* C5: a run whose file cannot be loaded never reaches the query or the    *)
(* loop and writes no line; the failed state is entered only from such a   *)
(* load, and no statement is executed after it (no catch, no retry).       *)
(***************************************************************************)
C5_FailureStopsBeforeOutput ==
    /\ [](fileState /= "valid" =>
            /\ out = <<>>
            /\ results = <<>>
            /\ pc \in {"start", "created", "failed"})
    /\ [](pc = "failed" => fileState /= "valid" /\ out = <<>>)
    /\ [][pc /= "failed"]_vars

\* A run that failed on a malformed file after the parser had added a triple.
C5_Witness ==
    /\ pc = "failed"
    /\ fileState = "malformed"
    /\ g /= {}
    /\ out = <<>>

(***************************************************************************)
(* C6: the lines written are, in order, the first column of the rows the   *)
(* query returned, the rows not yet printed are the ones left in the       *)
(* loop, and a completed run has written exactly one line per row: none    *)
(* more, none fewer, none twice.                                           *)
(***************************************************************************)
C6_OneLinePerRow ==
    /\ pc \in {"queried", "done"} =>
          \E rows \in QueryResults(Script(script).query, g) :
              /\ Len(rows) = Len(out) + Len(results)
              /\ \A i \in 1..Len(out) : out[i] = Str(rows[i][1])
              /\ \A i \in 1..Len(results) : results[i] = rows[Len(out) + i]
    /\ pc = "done" => results = <<>>
    /\ pc \notin {"queried", "done"} => out = <<>>

\* A completed run that printed three rows.
C6_Witness ==
    /\ pc = "done"
    /\ Len(out) = 3
    /\ Cardinality(Solutions(Script(script).query, g)) = 3

(***************************************************************************)
(* C7: every run eventually reaches the completed state or the failed      *)
(* state.                                                                  *)
(***************************************************************************)
C7_Terminates == <>(pc \in {"done", "failed"})

\* A run that completed after two iterations of the loop.
C7_Witness ==
    /\ pc = "done"
    /\ Len(out) = 2

(***************************************************************************)
(* C8: every step is the next one of the sequence create, parse, query,    *)
(* print rows, end: the graph is created empty, the parse fills it from    *)
(* the file or fails, the query is evaluated on the parsed graph, each     *)
(* iteration prints the next row, and a line is written only after parse   *)
(* and query have both succeeded.                                          *)
(***************************************************************************)
C8_StepsInFixedOrder ==
    /\ [][\/ pc = "start" /\ pc' = "created" /\ g' = {} /\ out' = <<>>
          \/ pc = "created" /\ pc' = "parsed" /\ g' = file /\ out' = <<>>
          \/ pc = "created" /\ pc' = "failed" /\ out' = <<>>
          \/ /\ pc = "parsed" /\ pc' = "queried"
             /\ results' \in QueryResults(Script(script).query, file)
             /\ out' = <<>>
          \/ /\ pc = "queried" /\ pc' = "queried"
             /\ results /= <<>>
             /\ results' = Tail(results)
             /\ out' = Append(out, Str(Head(results)[1]))
          \/ pc = "queried" /\ pc' = "done" /\ results = <<>> /\ out' = out]_vars
    /\ [](out /= <<>> => pc \in {"queried", "done"} /\ fileState = "valid" /\ g = file)

\* A completed run of rdf_nt_query.py that printed a line.
C8_Witness ==
    /\ script = "rdf_nt_query"
    /\ pc = "done"
    /\ out /= <<>>

(***************************************************************************)
(* C9: once the parse has completed no step changes the graph, and no step *)
(* at all changes the input file.                                          *)
(***************************************************************************)
C9_GraphFrozenAfterParse ==
    [][/\ pc \in {"parsed", "queried", "done"} => g' = g
       /\ file' = file
       /\ fileState' = fileState]_vars

\* A completed run of rdf_ttl_query_scr.py that printed lines from a graph
\* that still holds the triples of the file.
C9_Witness ==
    /\ script = "rdf_ttl_query_scr"
    /\ pc = "done"
    /\ Len(out) >= 2
    /\ g = file

(***************************************************************************)
(* C10: rdf_nt_query.py prints each matching appname term once however     *)
(* many subjects and matching metric names yield it, and rdf_ttl_query.py  *)
(* prints an appname once for every combination of a subject, an appname   *)
(* triple and a matching metric-name triple.                               *)
(***************************************************************************)
C10_DistinctVersusEverySolution ==
    /\ (script = "rdf_nt_query" /\ pc = "done") =>
          \A A \in AppNames \cup Lines :
              Count(out, A) =
                  Cardinality({c[2] : c \in {d \in JvmCombos(file, K8pAppname, K8pMetricName) :
                                                Str(d[2]) = A}})
    /\ (script = "rdf_ttl_query" /\ pc = "done") =>
          \A A \in AppNames \cup Lines :
              Count(out, A) =
                  Cardinality({c \in JvmCombos(file, NavipodAppname, NavipodMetricName) :
                                  Str(c[2]) = A})

\* A completed run of rdf_ttl_query.py that printed the one appname of one
\* subject twice, once for each of its two matching metric names.
C10_Witness ==
    /\ script = "rdf_ttl_query"
    /\ pc = "done"
    /\ out = <<"auth", "auth">>
    /\ Cardinality({t \in file : t[2] = NavipodAppname}) = 1

====
